---- MODULE Spec2Model ----
(***************************************************************************)
(* Verification model of the pvAccess server transport core:              *)
(*   - TransportRegistry (beaconEmitter.cpp, transportRegistry part)      *)
(*   - BeaconEmitter     (beaconEmitter.cpp)                              *)
(***************************************************************************)
EXTENDS Integers, Sequences, FiniteSets, TLC

(* ------------------------------ bounds -------------------------------- *)
\* number of distinct remote addresses the callers use
MaxAddr == 2
\* priorities used by the callers are 0..MaxPrio
MaxPrio == 1
\* number of distinct transport objects per (address, priority)
MaxId == 2
\* the callers never keep more than MaxStored transports registered
MaxStored == 2

\* beacons one emitter sends over its whole life (past the 16-bit range of the id)
MaxLifeBeacons == 65540

\* the null shared_pointer
Null == [id |-> 0, addr |-> 0, prio |-> 0]
Addresses == 1..MaxAddr
Priorities == 0..MaxPrio
Types == {"tcp", "udp"}
\* a transport object: its identity, getRemoteAddress() and getPriority()
Transports == [id : 1..MaxId, addr : Addresses, prio : Priorities]

VARIABLES
    transports,       \* _transports: address -> (priority -> transport)
    transportCount,   \* _transportCount
    mutex,            \* _mutex: "free" or the name of the holder
    taPc,             \* toArray(): "idle" or "copy" (inside the loops)
    transportArray,   \* toArray(): the vector being filled
    taI,              \* toArray(): the index i
    taIter,           \* toArray(): the key the iterators stand on (<<>>: begin)
    lastOp,           \* the last registry call that returned
    scenario,         \* progress of put(t1@(A,0)), put(t2@(A,1)), remove(t1)
    fastBeaconPeriod,   \* _fastBeaconPeriod (seconds)
    beaconSequenceID,   \* _beaconSequenceID (int16)
    timerQueued,        \* _timerNode is queued in the timer
    timerDelay,         \* the delay of the last scheduleAfterDelay(_timerNode, .)
    bePc,               \* where the emitter is: new, idle, send, incr, transmit
    sendBuffer,         \* the beacon in the transport's _sendBuffer
    beaconsSent,        \* beacons handed to the socket so far (not wrapped)
    destroyed,          \* destroy() has been called
    pc,                 \* where each thread of the UDP transport is
    closed,             \* _closed
    closeSets,          \* number of executions of _closed.set()
    tMutex,             \* BlockingUDPTransport::_mutex: "free" or the holder
    socketDestroys,     \* number of calls of epicsSocketDestroy(_channel)
    shutdownEvent,      \* _shutdownEvent is signalled and not yet consumed
    closeResult,        \* per thread: how its last close() call returned
    receiveBuffer,      \* the bytes of the datagram in _receiveBuffer
    rxPosition,         \* _receiveBuffer position
    rxLimit,            \* _receiveBuffer limit
    rxBigEndian,        \* _receiveBuffer byte order is big endian
    fromAddress,        \* processRead(): fromAddress
    socketError,        \* processRead(): socketError of the last recvfrom
    frame,              \* processBuffer(): the locals of the current frame
    remoteTransportReceiveBufferSize,        \* set by connection validation
    remoteTransportSocketReceiveBufferSize,  \* set by connection validation
    remoteMinorRevision,                     \* set by connection validation
    priority,           \* the transport's priority
    echoFrom,           \* EchoTransportSender::_echoFrom of the live sender
    sendMutex,          \* _sendMutex: "free" or the holder
    sendToEnabled,      \* _sendToEnabled
    sendTo,             \* _sendTo
    udpSendBuffer,      \* the bytes in the transport's _sendBuffer
    lastMessageStartPosition,  \* _lastMessageStartPosition
    senderLocks,        \* sender->lock() calls of each thread's current call
    senderUnlocks,      \* sender->unlock() calls of each thread's current call
    invoked,            \* handleResponse calls made for the current datagram
    wire                \* datagrams handed to sendto since the last recvfrom

regVars == <<transports, transportCount, mutex, taPc, transportArray, taI,
             taIter, lastOp, scenario>>
beVars == <<fastBeaconPeriod, beaconSequenceID, timerQueued, timerDelay, bePc,
            sendBuffer, beaconsSent, destroyed>>
closeVars == <<closed, closeSets, tMutex, socketDestroys, shutdownEvent,
               closeResult>>
rxVars == <<receiveBuffer, rxPosition, rxLimit, rxBigEndian, fromAddress,
           socketError, frame>>
remoteVars == <<remoteTransportReceiveBufferSize,
                remoteTransportSocketReceiveBufferSize, remoteMinorRevision,
                priority>>
txVars == <<echoFrom, sendMutex, sendToEnabled, sendTo, udpSendBuffer,
            lastMessageStartPosition, senderLocks, senderUnlocks>>
trVars == <<pc, closeVars, rxVars, remoteVars, txVars, invoked, wire>>

(* --------------------------- TransportRegistry ------------------------ *)
\* the empty std::map
EmptyMap == [x \in {} |-> Null]

\* priorities->find(priority) != priorities->end(), after a successful outer find
Has(a, p) == a \in DOMAIN transports /\ p \in DOMAIN transports[a]

\* std::map operator[] assignment: m[k] = v
MapSet(m, k, v) == [x \in DOMAIN m \cup {k} |-> IF x = k THEN v ELSE m[x]]

\* std::map erase(k)
MapErase(m, k) == [x \in DOMAIN m \ {k} |-> m[x]]

\* get(type, address, priority)
Get(type, a, p) == IF a \in DOMAIN transports
                   THEN IF p \in DOMAIN transports[a] THEN transports[a][p] ELSE Null
                   ELSE Null

\* the key a std::map<int16, ...> iterator visits first among keys
\* (faulty variant: a reversed comparator)
LastKey(keys) == CHOOSE x \in keys : \A y \in keys : x >= y
FirstKey(keys) == CHOOSE x \in keys : \A y \in keys : x <= y

\* the loop of get(type, address) over one priorities map: begin() .. end()
RECURSIVE InOrder(_, _)
InOrder(m, keys) ==
    IF keys = {} THEN <<>>
    ELSE LET k == FirstKey(keys)
         IN <<m[k]>> \o InOrder(m, keys \ {k})

\* get(type, address): an auto_ptr, null or owning the vector of the transports
GetAll(type, a) ==
    IF a \in DOMAIN transports
    THEN [isNull |-> FALSE, vec |-> InOrder(transports[a], DOMAIN transports[a])]
    ELSE [isNull |-> TRUE, vec |-> <<>>]

\* numberOfActiveTransports()
numberOfActiveTransports == transportCount

\* put: the new value of _transportCount (faulty variant: counts replacements too)
put_count_always(t) == transportCount + 1
put_count(t) == IF Has(t.addr, t.prio) THEN transportCount ELSE transportCount + 1

\* put: the new value of _transports (faulty variant: insert() semantics, first wins)
put_map_keep(t) ==
    IF Has(t.addr, t.prio) THEN transports
    ELSE LET inner == IF t.addr \in DOMAIN transports THEN transports[t.addr]
                      ELSE EmptyMap
         IN MapSet(transports, t.addr, MapSet(inner, t.prio, t))
put_map(t) ==
    LET priorities == IF t.addr \in DOMAIN transports THEN transports[t.addr]
                      ELSE EmptyMap
    IN MapSet(transports, t.addr, MapSet(priorities, t.prio, t))

\* remove: the returned reference (faulty variant: returns the argument)
remove_ret_arg(t) == IF t.addr \in DOMAIN transports THEN t ELSE Null
remove_ret(t) == Get("tcp", t.addr, t.prio)

\* remove: the new value of _transports (faulty variant: keeps the emptied inner map)
remove_map_keep_empty(t) ==
    IF Has(t.addr, t.prio)
    THEN MapSet(transports, t.addr, MapErase(transports[t.addr], t.prio))
    ELSE transports
remove_map(t) ==
    IF Has(t.addr, t.prio)
    THEN LET priorities == MapErase(transports[t.addr], t.prio)
         IN IF DOMAIN priorities = {}
            THEN MapErase(transports, t.addr)
            ELSE MapSet(transports, t.addr, priorities)
    ELSE transports

\* remove: the new value of _transportCount
remove_count(t) == IF Has(t.addr, t.prio) THEN transportCount - 1 ELSE transportCount

\* the transports of the scenario put(t1 at (A,0)), put(t2 at (A,1)), remove(t1)
ScenT1 == [id |-> 1, addr |-> 1, prio |-> 0]
ScenT2 == [id |-> 2, addr |-> 1, prio |-> 1]

\* the scenario's progress after a call; it starts over on an empty registry
ScenarioNext(op, t) ==
    CASE op = "clear" -> "s0"
      [] op = "put" /\ scenario = "s0" /\ t = ScenT1 -> "s1"
      [] op = "put" /\ scenario = "s1" /\ t = ScenT2 -> "s2"
      [] op = "remove" /\ scenario = "s2" /\ t = ScenT1 -> "s3"
      [] OTHER -> "off"

put(t) ==
    /\ mutex = "free"
    /\ Has(t.addr, t.prio) \/ transportCount < MaxStored
    /\ transports' = put_map(t)
    /\ transportCount' = put_count(t)
    /\ lastOp' = [op |-> "put", arg |-> t, ret |-> Get("tcp", t.addr, t.prio),
                  vec |-> <<>>, was |-> transportCount]
    /\ scenario' = ScenarioNext("put", t)
    /\ UNCHANGED <<mutex, taPc, transportArray, taI, taIter>>
    /\ UNCHANGED <<beVars, trVars>>

remove(t) ==
    /\ mutex = "free"
    /\ transports' = remove_map(t)
    /\ transportCount' = remove_count(t)
    /\ lastOp' = [op |-> "remove", arg |-> t, ret |-> remove_ret(t),
                  vec |-> <<>>, was |-> transportCount]
    /\ scenario' = ScenarioNext("remove", t)
    /\ UNCHANGED <<mutex, taPc, transportArray, taI, taIter>>
    /\ UNCHANGED <<beVars, trVars>>

clear ==
    /\ mutex = "free"
    /\ transports' = EmptyMap
    /\ transportCount' = 0
    /\ lastOp' = [op |-> "clear", arg |-> Null, ret |-> Null, vec |-> <<>>,
                  was |-> transportCount]
    /\ scenario' = ScenarioNext("clear", Null)
    /\ UNCHANGED <<mutex, taPc, transportArray, taI, taIter>>
    /\ UNCHANGED <<beVars, trVars>>

\* Lock guard(_mutex): the holder recorded in the mutex (faulty variant: no lock taken)
LockGuardNone(holder) == "free"
LockGuard(holder) == holder

\* the (address, priority) keys stored, and the order the nested iterators visit them in
StoredKeys == {k \in Addresses \X Priorities : Has(k[1], k[2])}
KeyLess(k1, k2) == k1[1] < k2[1] \/ (k1[1] = k2[1] /\ k1[2] < k2[2])
KeysAfter(k) == IF k = <<>> THEN StoredKeys ELSE {x \in StoredKeys : KeyLess(k, x)}

\* toArray(): lock, the count test and the allocation of the vector
toArrayBegin ==
    /\ mutex = "free"
    /\ taPc = "idle"
    /\ IF transportCount = 0
       THEN /\ lastOp' = [op |-> "toArrayNull", arg |-> Null, ret |-> Null,
                          vec |-> <<>>, was |-> transportCount]
            /\ UNCHANGED <<mutex, taPc, transportArray, taI, taIter>>
       ELSE /\ mutex' = LockGuard("toArray")
            /\ taPc' = "copy"
            /\ transportArray' = [x \in 1..transportCount |-> Null]
            /\ taI' = 0
            /\ taIter' = <<>>
            /\ UNCHANGED lastOp
    /\ UNCHANGED <<transports, transportCount, scenario>>
    /\ UNCHANGED <<beVars, trVars>>

\* toArray(): one turn of the nested loops, or the return after the last one
toArrayCopy ==
    /\ taPc = "copy"
    /\ LET rest == KeysAfter(taIter)
           k == CHOOSE x \in rest : \A y \in rest : x = y \/ KeyLess(x, y)
           done(o) == /\ lastOp' = [op |-> o, arg |-> Null, ret |-> Null,
                                    vec |-> transportArray, was |-> transportCount]
                      /\ mutex' = "free"
                      /\ taPc' = "idle"
                      /\ transportArray' = <<>>
                      /\ taI' = 0
                      /\ taIter' = <<>>
       IN IF rest = {} THEN done("toArray")
          ELSE IF taI >= Len(transportArray) THEN done("toArrayOutOfRange")
          ELSE /\ transportArray' = [transportArray EXCEPT ![taI + 1] = transports[k[1]][k[2]]]
               /\ taI' = taI + 1
               /\ taIter' = k
               /\ UNCHANGED <<mutex, taPc, lastOp>>
    /\ UNCHANGED <<transports, transportCount, scenario>>
    /\ UNCHANGED <<beVars, trVars>>

InitRegistry ==
    /\ transports = EmptyMap
    /\ transportCount = 0
    /\ mutex = "free"
    /\ taPc = "idle"
    /\ transportArray = <<>>
    /\ taI = 0
    /\ taIter = <<>>
    /\ lastOp = [op |-> "new", arg |-> Null, ret |-> Null, vec |-> <<>>, was |-> 0]
    /\ scenario = "s0"

NextRegistry ==
    \/ \E t \in Transports : put(t)
    \/ \E t \in Transports : remove(t)
    \/ clear
    \/ toArrayBegin
    \/ toArrayCopy

(* ------------------------------ BeaconEmitter ------------------------- *)
EPICS_CA_MIN_BEACON_PERIOD == 1
EPICS_CA_MIN_BEACON_COUNT_LIMIT == 3
DefaultSlowBeaconPeriod == 180
DefaultBeaconCountLimit == 10
\* width of int16: _beaconSequenceID is written with putShort and
\* _beaconCountLimit is initialised through an (int16) cast
Int16Bits == 16

Max(a, b) == IF a >= b THEN a ELSE b

\* context->getBeaconPeriod(): the configured periods tried (seconds)
ConfigBeaconPeriods == {0, 15}

\* _slowBeaconPeriod and _beaconCountLimit as the constructors set them
slowBeaconPeriod == Max(DefaultSlowBeaconPeriod, fastBeaconPeriod)
beaconCountLimit == Max(DefaultBeaconCountLimit, EPICS_CA_MIN_BEACON_COUNT_LIMIT)

\* the value an int16 holds after the assignment of v (two's complement wrap)
ToInt16(v) == LET m == v % (2 ^ Int16Bits)
              IN IF m >= 2 ^ (Int16Bits - 1) THEN m - 2 ^ Int16Bits ELSE m

\* buffer->putShort(v): the 16 bits written, read as an unsigned number
putShort(v) == v % (2 ^ Int16Bits)

\* the sequence id send() writes into the beacon
\* (faulty variant: the id is written after the increment)
beaconPayloadIdAfterIncrement == putShort(beaconSequenceID + 1)
beaconPayloadId == putShort(beaconSequenceID)

\* reschedule(): the period chosen (faulty variant: > instead of >=)
reschedule_period_gt(id) ==
    IF id > beaconCountLimit THEN slowBeaconPeriod ELSE fastBeaconPeriod
reschedule_period(id) ==
    IF id >= beaconCountLimit THEN slowBeaconPeriod ELSE fastBeaconPeriod

\* the outcome of the server-status query: no provider, data, or an exception
StatusOutcomes == {"none", "data", "throws"}

NoBeacon == [id |-> 0, status |-> "empty", threw |-> FALSE]

\* send(): where control goes after the server-status query; an exception of the
\* provider is caught by the catch (...) around the query
\* (faulty variant: no catch, the exception leaves send() and enqueueSendRequest)
send_after_status_uncaught(outcome) == IF outcome = "throws" THEN "idle" ELSE "incr"
send_after_status(outcome) == "incr"

\* the members both constructors set alike
InitBeaconCommon ==
    /\ beaconSequenceID = 0
    /\ timerQueued = FALSE
    /\ timerDelay = 0
    /\ bePc = "new"
    /\ sendBuffer = NoBeacon
    /\ beaconsSent = 0
    /\ destroyed = FALSE

\* BeaconEmitter(transport, context)
InitBeacon ==
    /\ fastBeaconPeriod \in {Max(c, EPICS_CA_MIN_BEACON_PERIOD) : c \in ConfigBeaconPeriods}
    /\ InitBeaconCommon

\* BeaconEmitter(transport, serverAddress)
InitBeaconAddress ==
    /\ fastBeaconPeriod = EPICS_CA_MIN_BEACON_PERIOD
    /\ InitBeaconCommon

start ==
    /\ bePc = "new"
    /\ timerQueued' = TRUE
    /\ timerDelay' = 0
    /\ bePc' = "idle"
    /\ UNCHANGED <<fastBeaconPeriod, beaconSequenceID, sendBuffer, beaconsSent, destroyed>>
    /\ UNCHANGED <<regVars, trVars>>

\* the timer takes the node off its queue and calls callback(), which enters
\* enqueueSendRequest: the send buffer is cleared
callback ==
    /\ bePc = "idle"
    /\ timerQueued
    /\ beaconsSent < MaxLifeBeacons
    /\ timerQueued' = FALSE
    /\ sendBuffer' = NoBeacon
    /\ bePc' = "send"
    /\ UNCHANGED <<fastBeaconPeriod, beaconSequenceID, timerDelay, beaconsSent, destroyed>>
    /\ UNCHANGED <<regVars, trVars>>

\* send(): status query, startMessage, the fields, the status or the null sentinel
send_build(outcome) ==
    /\ bePc = "send"
    /\ sendBuffer' = [id |-> beaconPayloadId,
                      status |-> IF outcome = "data" THEN "data" ELSE "null",
                      threw |-> outcome = "throws"]
    /\ bePc' = send_after_status(outcome)
    /\ UNCHANGED <<fastBeaconPeriod, beaconSequenceID, timerQueued, timerDelay,
                   beaconsSent, destroyed>>
    /\ UNCHANGED <<regVars, trVars>>

\* send(): _beaconSequenceID++ and reschedule()
send_reschedule ==
    /\ bePc = "incr"
    /\ beaconSequenceID' = ToInt16(beaconSequenceID + 1)
    /\ LET period == reschedule_period(beaconSequenceID')
       IN IF period > 0
          THEN timerQueued' = TRUE /\ timerDelay' = period
          ELSE UNCHANGED <<timerQueued, timerDelay>>
    /\ bePc' = "transmit"
    /\ UNCHANGED <<fastBeaconPeriod, sendBuffer, beaconsSent, destroyed>>
    /\ UNCHANGED <<regVars, trVars>>

\* enqueueSendRequest after send() returned: endMessage and the socket send
transmit ==
    /\ bePc = "transmit"
    /\ beaconsSent' = beaconsSent + 1
    /\ bePc' = "idle"
    /\ UNCHANGED <<fastBeaconPeriod, beaconSequenceID, timerQueued, timerDelay,
                   sendBuffer, destroyed>>
    /\ UNCHANGED <<regVars, trVars>>

\* destroy(): _timerNode.cancel() takes the node off the timer's queue
destroy ==
    /\ bePc # "new"
    /\ timerQueued' = FALSE
    /\ destroyed' = TRUE
    /\ UNCHANGED <<fastBeaconPeriod, beaconSequenceID, timerDelay, bePc, sendBuffer,
                   beaconsSent>>
    /\ UNCHANGED <<regVars, trVars>>

NextBeacon ==
    \/ start
    \/ callback
    \/ \E outcome \in StatusOutcomes : send_build(outcome)
    \/ send_reschedule
    \/ transmit
    \/ destroy

(* ------------------- BlockingUDPTransport and handlers ----------------- *)
\* peers that send datagrams to the transport: 1..MaxPeer
MaxPeer == 2
\* frames per received datagram
MaxFrames == 2
\* handleResponse calls and sent datagrams recorded per received datagram (a
\* datagram can be re-parsed without end, see nextRequestPosition; the records
\* stop growing at this length, the program goes on)
MaxDispatch == 3

\* the wire constants of the protocol (caConstants.h)
CA_MAGIC == 202
CA_VERSION == 1
CA_MESSAGE_HEADER_SIZE == 8
HANDLER_TABLE_LENGTH == 28
CMD_BEACON == 0
CMD_CONNECTION_VALIDATION == 1
CMD_ECHO == 2

\* the threads that use one transport: its receive worker, the timer thread
\* that emits beacons, and two user threads (one of them may be the destructor)
RX == "rx"
TIMER == "timer"
Users == {"u1", "u2"}
Threads == {RX, TIMER} \cup Users

\* the peers, and the address of the server itself, which is on the ignore
\* list of the transport
Peers == 1..MaxPeer
LocalAddress == MaxPeer + 1
\* _ignoredAddresses and _sendAddresses as the server context configures them
ignoredAddresses == {LocalAddress}
sendAddresses == <<MaxPeer + 2, MaxPeer + 3>>

\* int8 value of a byte
ToInt8(b) == IF b >= 128 THEN b - 256 ELSE b

\* ByteBuffer::putInt: the four bytes of an int32 in the given byte order
IntBytesLE(v) ==
    LET w == IF v >= 0 THEN v ELSE -v - 1
        raw == <<w % 256, (w \div 256) % 256, (w \div 65536) % 256,
                 (w \div 16777216) % 256>>
    IN  IF v >= 0 THEN raw ELSE [i \in 1..4 |-> 255 - raw[i]]
putInt(v, big) ==
    LET le == IntBytesLE(v)
    IN  IF big THEN <<le[4], le[3], le[2], le[1]>> ELSE le

\* the byte at index i (from 0) of the receive buffer; bytes past the limit are
\* whatever an earlier datagram left in the array
ByteAt(i, stale) == IF i < rxLimit THEN receiveBuffer[i + 1] ELSE stale

\* ByteBuffer::getInt at position pos in the buffer's byte order
getInt(pos, big, stale) ==
    IF big
    THEN ToInt8(ByteAt(pos, stale)) * 16777216 + ByteAt(pos + 1, stale) * 65536
            + ByteAt(pos + 2, stale) * 256 + ByteAt(pos + 3, stale)
    ELSE ToInt8(ByteAt(pos + 3, stale)) * 16777216 + ByteAt(pos + 2, stale) * 65536
            + ByteAt(pos + 1, stale) * 256 + ByteAt(pos, stale)

\* processBuffer(): size_t nextRequestPosition = getPosition() + payloadSize,
\* where payloadSize is the int32 length field converted to size_t. A negative
\* int32 v becomes 2^W + v (W the width of size_t); the sum is taken modulo 2^W,
\* so it wraps to position + v when that is not negative and is a value above
\* every buffer limit otherwise.
SizeAboveEveryLimit == 2147483647
nextRequestPosition(position, payloadSize) ==
    IF payloadSize >= 0 \/ position + payloadSize >= 0
    THEN position + payloadSize
    ELSE SizeAboveEveryLimit

\* the handler table of ServerResponseHandler; an index outside the table reads
\* memory that is not a handler
handlerTable(command) ==
    IF command = CMD_BEACON THEN "noop"
    ELSE IF command = CMD_CONNECTION_VALIDATION THEN "cv"
    ELSE IF command = CMD_ECHO THEN "echo"
    ELSE IF command >= 3 /\ command < HANDLER_TABLE_LENGTH THEN "bad"
    ELSE "wild"

\* ServerResponseHandler::handleResponse: the test that lets a command through
\* (faulty variant: the lower bound is not tested)
inTable_no_lower(command) == command < HANDLER_TABLE_LENGTH
inTable(command) == ~(command < 0 \/ command >= HANDLER_TABLE_LENGTH)

\* processBuffer(): the test of the magic byte
\* (faulty variant: every first byte is accepted)
magicOk_any(magic) == TRUE
magicOk(magic) == ~(magic # ToInt8(CA_MAGIC))

(* received datagrams: one of these frames, followed by frames of FollowFrames,
   at most MaxFrames frames in all *)
Header(magic, version, flags, command, length) ==
    <<magic, version, flags, command>> \o putInt(length, flags >= 128)
ValidationPayload(big) ==
    putInt(65536, big) \o putInt(131072, big)
        \o (IF big THEN <<0, 1>> ELSE <<1, 0>>)
EchoFrame == Header(CA_MAGIC, 1, 0, CMD_ECHO, 0)
ValidationFrameLE ==
    Header(CA_MAGIC, 1, 0, CMD_CONNECTION_VALIDATION, 10) \o ValidationPayload(FALSE)
\* a connection-validation frame that declares and carries 4 bytes of payload
ValidationShortFrame ==
    Header(CA_MAGIC, 1, 0, CMD_CONNECTION_VALIDATION, 4) \o putInt(65536, FALSE)
ValidationFrameBE ==
    Header(CA_MAGIC, 2, 128, CMD_CONNECTION_VALIDATION, 10) \o ValidationPayload(TRUE)
BeaconFrame == Header(CA_MAGIC, 1, 0, CMD_BEACON, 0)
BadResponseFrame == Header(CA_MAGIC, 1, 0, 3, 0)
UnknownFrame == Header(CA_MAGIC, 1, 0, 99, 0)
NegativeFrame == Header(CA_MAGIC, 1, 0, 200, 2) \o <<5, 6>>
BadMagicFrame == Header(255, 1, 0, CMD_ECHO, 0)
OverrunFrame == Header(CA_MAGIC, 1, 0, CMD_ECHO, 100)
WrapFrame == Header(CA_MAGIC, 1, 0, CMD_ECHO, -8)
Frames == {EchoFrame, ValidationFrameLE, ValidationFrameBE, ValidationShortFrame,
           BeaconFrame, BadResponseFrame, UnknownFrame, NegativeFrame,
           BadMagicFrame, OverrunFrame, WrapFrame}
FollowFrames == {EchoFrame, UnknownFrame, BadMagicFrame}
RECURSIVE Concat(_)
Concat(fs) == IF fs = <<>> THEN <<>> ELSE Head(fs) \o Concat(Tail(fs))
Datagrams ==
    {<<>>} \cup
    {f \o Concat(fs) : f \in Frames,
                       fs \in UNION {[1..n -> FollowFrames] : n \in 0..(MaxFrames - 1)}}
\* the datagrams of the runs that study close() and the send path
EchoDatagrams == {EchoFrame, EchoFrame \o EchoFrame}
CloseDatagrams == EchoDatagrams \cup {WrapFrame}
\* the values a byte past the limit can have
StaleBytes == {0, 255}

\* the records of calls and of sent datagrams: e is appended while there is room
Record(log, e) == IF Len(log) < MaxDispatch THEN Append(log, e) ELSE log

NoFrame == [start |-> 0, magic |-> 0, version |-> 0, command |-> 0,
            payloadSize |-> 0, headerEnd |-> 0, next |-> 0]
NoClose == [how |-> "none", started |-> FALSE, workerDone |-> FALSE]

\* the transport after construction and configuration, before start()
InitTransport ==
    /\ pc = [th \in Threads |-> IF th = RX THEN "new" ELSE "idle"]
    /\ closed = FALSE
    /\ closeSets = 0
    /\ tMutex = "free"
    /\ socketDestroys = 0
    /\ shutdownEvent = FALSE
    /\ closeResult = [th \in Threads |-> NoClose]
    /\ receiveBuffer = <<>>
    /\ rxPosition = 0
    /\ rxLimit = 0
    /\ rxBigEndian = FALSE
    /\ fromAddress = LocalAddress
    /\ socketError = "none"
    /\ frame = NoFrame
    /\ remoteTransportReceiveBufferSize = 0
    /\ remoteTransportSocketReceiveBufferSize = 0
    /\ remoteMinorRevision = 0
    /\ priority = 0
    /\ echoFrom = LocalAddress
    /\ sendMutex = "free"
    /\ sendToEnabled = FALSE
    /\ sendTo = LocalAddress
    /\ udpSendBuffer = <<>>
    /\ lastMessageStartPosition = 0
    /\ senderLocks = [th \in {RX, TIMER} |-> 0]
    /\ senderUnlocks = [th \in {RX, TIMER} |-> 0]
    /\ invoked = <<>>
    /\ wire = <<>>

(* close(forced, waitForThreadToComplete), one step per statement; the user
   threads and the destructor call close(true), which waits; the receive worker
   calls close(true, false) *)
waitForThreadToComplete(th) == th # RX

\* the state of a close() call at the moment it returns
CloseReturn(how) ==
    [how |-> how, started |-> pc[RX] # "new", workerDone |-> pc[RX] = "done"]

\* where a thread goes on after its close() call returned
AfterClose(th) == IF th = RX THEN "exit" ELSE "idle"

\* Lock guard(_mutex)
\* (faulty variant: close() takes no lock)
close_guard_none(th) == "free"
close_guard(th) == th

\* a user thread, or the destructor, calls close(true)
user_close(th) ==
    /\ pc[th] = "idle"
    /\ pc' = [pc EXCEPT ![th] = "close_lock"]
    /\ UNCHANGED <<closeVars, rxVars, remoteVars, txVars, invoked, wire>>
    /\ UNCHANGED <<regVars, beVars>>

close_lock(th) ==
    /\ pc[th] = "close_lock"
    /\ tMutex = "free"
    /\ tMutex' = close_guard(th)
    /\ pc' = [pc EXCEPT ![th] = "close_check"]
    /\ UNCHANGED <<closed, closeSets, socketDestroys, shutdownEvent, closeResult>>
    /\ UNCHANGED <<rxVars, remoteVars, txVars, invoked, wire>>
    /\ UNCHANGED <<regVars, beVars>>

\* if(_closed.get()) return;
close_check(th) ==
    /\ pc[th] = "close_check"
    /\ IF closed
       THEN /\ tMutex' = IF tMutex = th THEN "free" ELSE tMutex
            /\ closeResult' = [closeResult EXCEPT ![th] = CloseReturn("early")]
            /\ pc' = [pc EXCEPT ![th] = AfterClose(th)]
       ELSE /\ pc' = [pc EXCEPT ![th] = "close_set"]
            /\ UNCHANGED <<tMutex, closeResult>>
    /\ UNCHANGED <<closed, closeSets, socketDestroys, shutdownEvent>>
    /\ UNCHANGED <<rxVars, remoteVars, txVars, invoked, wire>>
    /\ UNCHANGED <<regVars, beVars>>

\* _closed.set();
close_set(th) ==
    /\ pc[th] = "close_set"
    /\ closed' = TRUE
    /\ closeSets' = closeSets + 1
    /\ pc' = [pc EXCEPT ![th] = "close_destroy"]
    /\ UNCHANGED <<tMutex, socketDestroys, shutdownEvent, closeResult>>
    /\ UNCHANGED <<rxVars, remoteVars, txVars, invoked, wire>>
    /\ UNCHANGED <<regVars, beVars>>

\* epicsSocketDestroy(_channel); the guard is released at the end of the block
close_destroy(th) ==
    /\ pc[th] = "close_destroy"
    /\ socketDestroys' = socketDestroys + 1
    /\ tMutex' = IF tMutex = th THEN "free" ELSE tMutex
    /\ IF waitForThreadToComplete(th)
       THEN /\ pc' = [pc EXCEPT ![th] = "close_wait"]
            /\ UNCHANGED closeResult
       ELSE /\ pc' = [pc EXCEPT ![th] = AfterClose(th)]
            /\ closeResult' = [closeResult EXCEPT ![th] = CloseReturn("nowait")]
    /\ UNCHANGED <<closed, closeSets, shutdownEvent>>
    /\ UNCHANGED <<rxVars, remoteVars, txVars, invoked, wire>>
    /\ UNCHANGED <<regVars, beVars>>

\* _shutdownEvent.wait(5.0): returns when the event is signalled, which consumes
\* the signal, or after five seconds without a signal
close_wait(th) ==
    /\ pc[th] = "close_wait"
    /\ closeResult' = [closeResult EXCEPT
           ![th] = CloseReturn(IF shutdownEvent THEN "waited" ELSE "timeout")]
    /\ shutdownEvent' = FALSE
    /\ pc' = [pc EXCEPT ![th] = AfterClose(th)]
    /\ UNCHANGED <<closed, closeSets, tMutex, socketDestroys>>
    /\ UNCHANGED <<rxVars, remoteVars, txVars, invoked, wire>>
    /\ UNCHANGED <<regVars, beVars>>

(* processRead(), the receive worker *)
\* start(): the worker thread is created and enters processRead()
transport_start ==
    /\ pc[RX] = "new"
    /\ pc' = [pc EXCEPT ![RX] = "loop"]
    /\ UNCHANGED <<closeVars, rxVars, remoteVars, txVars, invoked, wire>>
    /\ UNCHANGED <<regVars, beVars>>

\* while(!_closed.get()) { _receiveBuffer->clear(); ...
rx_loop ==
    /\ pc[RX] = "loop"
    /\ IF closed
       THEN /\ pc' = [pc EXCEPT ![RX] = "exit"]
            /\ UNCHANGED <<rxVars, invoked, wire>>
       ELSE /\ pc' = [pc EXCEPT ![RX] = "recv"]
            /\ receiveBuffer' = <<>>
            /\ rxPosition' = 0
            /\ rxLimit' = 0
            /\ frame' = NoFrame
            /\ invoked' = <<>>
            /\ wire' = <<>>
            /\ socketError' = "none"
            /\ UNCHANGED <<rxBigEndian, fromAddress>>
    /\ UNCHANGED <<closeVars, remoteVars, txVars>>
    /\ UNCHANGED <<regVars, beVars>>

\* recvfrom() returns a datagram d from address a (bytesRead >= 0); a datagram
\* from an ignored address is dropped, any other is flipped and handed to
\* processBuffer; bytesRead = 0 goes round the loop
rx_recvfrom(d, a) ==
    /\ pc[RX] = "recv"
    /\ socketDestroys = 0
    /\ receiveBuffer' = d
    /\ fromAddress' = a
    /\ rxPosition' = 0
    /\ IF Len(d) > 0 /\ a \notin ignoredAddresses
       THEN /\ rxLimit' = Len(d)
            /\ pc' = [pc EXCEPT ![RX] = "process"]
       ELSE /\ rxLimit' = 0
            /\ pc' = [pc EXCEPT ![RX] = "loop"]
    /\ UNCHANGED <<rxBigEndian, socketError, frame>>
    /\ UNCHANGED <<closeVars, remoteVars, txVars, invoked, wire>>
    /\ UNCHANGED <<regVars, beVars>>

\* the values of SOCKERRNO after a failed recvfrom; a destroyed socket gives
\* EBADF
RecvErrors == {"EINTR", "EAGAIN", "ETIMEDOUT", "EWOULDBLOCK", "ECONNREFUSED",
               "ECONNRESET", "EBADF", "ENOBUFS"}

\* processRead(): the errors after which the loop goes on
\* (faulty variant: ECONNRESET is not among them)
recvContinues_no_reset(err) ==
    \/ err = "EINTR" \/ err = "EAGAIN" \/ err = "ETIMEDOUT" \/ err = "EWOULDBLOCK"
    \/ err = "ECONNREFUSED"
recvContinues(err) ==
    \/ err = "EINTR" \/ err = "EAGAIN" \/ err = "ETIMEDOUT" \/ err = "EWOULDBLOCK"
    \/ err = "ECONNREFUSED" \/ err = "ECONNRESET"

\* recvfrom() returns -1: a timeout or interruption and a refused or reset
\* connection go round the loop, any other error calls close(true, false) and
\* leaves the loop
rx_recv_error(err) ==
    /\ pc[RX] = "recv"
    /\ socketDestroys > 0 => err = "EBADF"
    /\ socketError' = err
    /\ pc' = [pc EXCEPT ![RX] = IF recvContinues(err) THEN "loop" ELSE "close_lock"]
    /\ UNCHANGED <<receiveBuffer, rxPosition, rxLimit, rxBigEndian, fromAddress,
                   frame>>
    /\ UNCHANGED <<closeVars, remoteVars, txVars, invoked, wire>>
    /\ UNCHANGED <<regVars, beVars>>

\* processBuffer(): one turn of the loop up to the call of the handler
rx_parse ==
    /\ pc[RX] = "process"
    /\ IF rxLimit - rxPosition < CA_MESSAGE_HEADER_SIZE
       THEN /\ pc' = [pc EXCEPT ![RX] = "loop"]
            /\ UNCHANGED <<rxPosition, rxBigEndian, frame>>
       ELSE LET magic == ToInt8(ByteAt(rxPosition, 0))
                version == ToInt8(ByteAt(rxPosition + 1, 0))
                flags == ToInt8(ByteAt(rxPosition + 2, 0))
                command == ToInt8(ByteAt(rxPosition + 3, 0))
                payloadSize == getInt(rxPosition + 4, flags < 0, 0)
                headerEnd == rxPosition + CA_MESSAGE_HEADER_SIZE
                next == nextRequestPosition(headerEnd, payloadSize)
            IN  IF ~magicOk(magic)
                THEN /\ rxPosition' = rxPosition + 2
                     /\ pc' = [pc EXCEPT ![RX] = "loop"]
                     /\ UNCHANGED <<rxBigEndian, frame>>
                ELSE /\ rxBigEndian' = (flags < 0)
                     /\ rxPosition' = headerEnd
                     /\ IF next > rxLimit
                        THEN /\ pc' = [pc EXCEPT ![RX] = "loop"]
                             /\ UNCHANGED frame
                        ELSE /\ pc' = [pc EXCEPT ![RX] = "handle"]
                             /\ frame' = [start |-> rxPosition, magic |-> magic,
                                          version |-> version,
                                          command |-> command,
                                          payloadSize |-> payloadSize,
                                          headerEnd |-> headerEnd,
                                          next |-> next]
    /\ UNCHANGED <<receiveBuffer, rxLimit, fromAddress, socketError>>
    /\ UNCHANGED <<closeVars, remoteVars, txVars, invoked, wire>>
    /\ UNCHANGED <<regVars, beVars>>

\* ConnectionValidationHandler::handleResponse: the k-th payloadBuffer->getInt(),
\* k = 0 for the receive-buffer size and k = 1 for the socket receive-buffer size
\* (faulty variant: the two sizes are read in the other order)
validationRead_swapped(k, stale) ==
    getInt(rxPosition + 4 * (1 - k), rxBigEndian, stale)
validationRead(k, stale) == getInt(rxPosition + 4 * k, rxBigEndian, stale)

\* the setters of the transport that connection validation calls
setRemoteTransportReceiveBufferSize(v) == v
setRemoteTransportSocketReceiveBufferSize(v) == v
setRemoteMinorRevision(v) == v

\* ServerResponseHandler::handleResponse and the handler it delegates to. A
\* handler either returns or throws; the exception leaves processBuffer() and
\* the while loop of processRead(), whose catch (...) calls close(true, false)
HandlerOutcomes == {"returns", "throws"}
rx_dispatch(outcome, stale) ==
    /\ pc[RX] = "handle"
    /\ LET h == IF inTable(frame.command) THEN handlerTable(frame.command)
                ELSE "none"
       IN  /\ invoked' = Record(invoked,
                  [handler |-> h, frame |-> frame, threw |-> outcome = "throws",
                   cursor |-> rxPosition])
           /\ h = "none" => outcome = "returns"
           /\ (h # "cv" \/ outcome = "throws") => stale = 0
           /\ IF outcome = "throws"
              THEN /\ pc' = [pc EXCEPT ![RX] = "close_lock"]
                   /\ UNCHANGED <<rxPosition, remoteVars, echoFrom>>
              ELSE IF h = "cv"
              THEN /\ remoteTransportReceiveBufferSize' =
                          setRemoteTransportReceiveBufferSize(
                              validationRead(0, stale))
                   /\ remoteTransportSocketReceiveBufferSize' =
                          setRemoteTransportSocketReceiveBufferSize(
                              validationRead(1, stale))
                   /\ remoteMinorRevision' = setRemoteMinorRevision(frame.version)
                   /\ rxPosition' = rxPosition + 8
                   /\ pc' = [pc EXCEPT ![RX] = "handled"]
                   /\ UNCHANGED <<priority, echoFrom>>
              ELSE IF h = "echo"
              THEN /\ echoFrom' = fromAddress
                   /\ pc' = [pc EXCEPT ![RX] = "enq_lock"]
                   /\ UNCHANGED <<rxPosition, remoteVars>>
              ELSE /\ pc' = [pc EXCEPT ![RX] = "handled"]
                   /\ UNCHANGED <<rxPosition, remoteVars, echoFrom>>
    /\ UNCHANGED <<receiveBuffer, rxLimit, rxBigEndian, fromAddress, socketError,
                   frame>>
    /\ UNCHANGED <<sendMutex, sendToEnabled, sendTo, udpSendBuffer,
                   lastMessageStartPosition, senderLocks, senderUnlocks>>
    /\ UNCHANGED <<closeVars, wire>>
    /\ UNCHANGED <<regVars, beVars>>

\* processBuffer(): receiveBuffer->setPosition(nextRequestPosition)
rx_next ==
    /\ pc[RX] = "handled"
    /\ rxPosition' = frame.next
    /\ pc' = [pc EXCEPT ![RX] = "process"]
    /\ UNCHANGED <<receiveBuffer, rxLimit, rxBigEndian, fromAddress, socketError,
                   frame>>
    /\ UNCHANGED <<closeVars, remoteVars, txVars, invoked, wire>>
    /\ UNCHANGED <<regVars, beVars>>

\* the end of processRead(): _shutdownEvent.signal()
rx_exit ==
    /\ pc[RX] = "exit"
    /\ shutdownEvent' = TRUE
    /\ pc' = [pc EXCEPT ![RX] = "done"]
    /\ UNCHANGED <<closed, closeSets, tMutex, socketDestroys, closeResult>>
    /\ UNCHANGED <<rxVars, remoteVars, txVars, invoked, wire>>
    /\ UNCHANGED <<regVars, beVars>>

(* enqueueSendRequest(sender), one step per statement; the receive worker
   sends the echo reply, the timer thread sends the beacon *)
\* EPICS_BYTE_ORDER == EPICS_ENDIAN_BIG on the host
HostBigEndian == FALSE

\* startMessage(command, ensureCapacity): the bytes it appends
startMessage(command) ==
    <<CA_MAGIC, CA_VERSION, IF HostBigEndian THEN 128 ELSE 0, command>>
        \o putInt(0, HostBigEndian)

\* endMessage(): the buffer with the payload length patched in at start + 4;
\* the absolute putInt leaves the position where it is
endMessage(buf, first) ==
    LET length == putInt(Len(buf) - first - CA_MESSAGE_HEADER_SIZE, HostBigEndian)
    IN  [i \in 1..Len(buf) |->
            IF i > first + 4 /\ i <= first + 8 THEN length[i - first - 4]
            ELSE buf[i]]

\* BeaconEmitter::send: the bytes after the header: sequence id, startup time,
\* server address and port, and the null status descriptor
BeaconBody ==
    LET id == putShort(beaconSequenceID)
    IN  (IF HostBigEndian THEN <<id \div 256, id % 256>>
         ELSE <<id % 256, id \div 256>>)
            \o [i \in 1..30 |-> 0] \o <<255>>

\* Lock lock(_sendMutex)
\* (faulty variant: enqueueSendRequest takes no lock)
send_guard_none(th) == "free"
send_guard(th) == th

\* BeaconEmitter::callback(): the timer thread calls enqueueSendRequest
timer_callback ==
    /\ pc[TIMER] = "idle"
    /\ Len(wire) < MaxDispatch
    /\ pc' = [pc EXCEPT ![TIMER] = "enq_lock"]
    /\ UNCHANGED <<closeVars, rxVars, remoteVars, txVars, invoked, wire>>
    /\ UNCHANGED <<regVars, beVars>>

\* entry of enqueueSendRequest(sender): Lock lock(_sendMutex)
enq_lock(th) ==
    /\ pc[th] = "enq_lock"
    /\ sendMutex = "free"
    /\ sendMutex' = send_guard(th)
    /\ senderLocks' = [senderLocks EXCEPT ![th] = 0]
    /\ senderUnlocks' = [senderUnlocks EXCEPT ![th] = 0]
    /\ pc' = [pc EXCEPT ![th] = "enq_clear"]
    /\ UNCHANGED <<echoFrom, sendToEnabled, sendTo, udpSendBuffer,
                   lastMessageStartPosition>>
    /\ UNCHANGED <<closeVars, rxVars, remoteVars, invoked, wire>>
    /\ UNCHANGED <<regVars, beVars>>

\* _sendToEnabled = false; _sendBuffer->clear();
enq_clear(th) ==
    /\ pc[th] = "enq_clear"
    /\ sendToEnabled' = FALSE
    /\ udpSendBuffer' = <<>>
    /\ pc' = [pc EXCEPT ![th] = "enq_send"]
    /\ UNCHANGED <<echoFrom, sendMutex, sendTo, lastMessageStartPosition,
                   senderLocks, senderUnlocks>>
    /\ UNCHANGED <<closeVars, rxVars, remoteVars, invoked, wire>>
    /\ UNCHANGED <<regVars, beVars>>

\* TransportSendControl::setRecipient(sendTo)
setRecipient(a) == [enabled |-> TRUE, to |-> a]

\* a call made inside the try block either returns or throws
SendOutcomes == {"returns", "throws"}
\* a second delete of the same EchoTransportSender is undefined: the process
\* either goes on or is aborted
DeleteOutcomes == {"continues", "aborts"}

\* where a thread is after enqueueSendRequest has returned
AfterEnqueue(th) == IF th = RX THEN "handled" ELSE "idle"

\* catch (...) { sender->unlock(); } after the unlock() of the try block has
\* been called: the sender is unlocked again, the send lock is released and
\* enqueueSendRequest returns, unless the second delete of the echo sender
\* aborts the process
enq_catch_after_unlock(th, del) ==
    /\ senderUnlocks' = [senderUnlocks EXCEPT ![th] = @ + 1]
    /\ IF th = RX /\ del = "aborts"
       THEN /\ pc' = [t \in Threads |-> "aborted"]
            /\ UNCHANGED sendMutex
       ELSE /\ pc' = [pc EXCEPT ![th] = AfterEnqueue(th)]
            /\ sendMutex' = IF sendMutex = th THEN "free" ELSE sendMutex

\* sender->lock(); try { sender->send(_sendBuffer, this); sender->unlock();
\* EchoTransportSender::send starts an echo message and sets the recipient, and
\* its unlock() deletes the sender; BeaconEmitter::send starts a beacon message
\* and writes its body. When send() throws, catch (...) calls unlock() and
\* enqueueSendRequest returns.
enq_send(th, outcome) ==
    /\ pc[th] = "enq_send"
    /\ senderLocks' = [senderLocks EXCEPT ![th] = @ + 1]
    /\ senderUnlocks' = [senderUnlocks EXCEPT ![th] = @ + 1]
    /\ echoFrom' = IF th = RX THEN LocalAddress ELSE echoFrom
    /\ IF outcome = "throws"
       THEN /\ pc' = [pc EXCEPT ![th] = AfterEnqueue(th)]
            /\ sendMutex' = IF sendMutex = th THEN "free" ELSE sendMutex
            /\ UNCHANGED <<sendToEnabled, sendTo, udpSendBuffer,
                           lastMessageStartPosition>>
       ELSE /\ lastMessageStartPosition' = Len(udpSendBuffer)
            /\ IF th = RX
               THEN /\ udpSendBuffer' = udpSendBuffer \o startMessage(CMD_ECHO)
                    /\ sendToEnabled' = setRecipient(echoFrom).enabled
                    /\ sendTo' = setRecipient(echoFrom).to
               ELSE /\ udpSendBuffer' =
                          udpSendBuffer \o startMessage(CMD_BEACON) \o BeaconBody
                    /\ UNCHANGED <<sendToEnabled, sendTo>>
            /\ pc' = [pc EXCEPT ![th] = "enq_end"]
            /\ UNCHANGED sendMutex
    /\ UNCHANGED <<closeVars, rxVars, remoteVars, invoked, wire>>
    /\ UNCHANGED <<regVars, beVars>>

\* endMessage(); when it throws, catch (...) runs
enq_end(th, outcome, del) ==
    /\ pc[th] = "enq_end"
    /\ (outcome = "returns" \/ th # RX) => del = "continues"
    /\ IF outcome = "throws"
       THEN /\ enq_catch_after_unlock(th, del)
            /\ UNCHANGED udpSendBuffer
       ELSE /\ udpSendBuffer' =
                  endMessage(udpSendBuffer, lastMessageStartPosition)
            /\ pc' = [pc EXCEPT ![th] = "enq_sendto"]
            /\ UNCHANGED <<sendMutex, senderUnlocks>>
    /\ UNCHANGED <<echoFrom, sendToEnabled, sendTo, lastMessageStartPosition,
                   senderLocks>>
    /\ UNCHANGED <<closeVars, rxVars, remoteVars, invoked, wire>>
    /\ UNCHANGED <<regVars, beVars>>

\* if(!_sendToEnabled) send(_sendBuffer); else send(_sendBuffer, _sendTo);
\* then the lock is released. sendto on a destroyed socket sends nothing; when
\* the send throws, nothing is sent and catch (...) runs.
enq_sendto(th, outcome, del) ==
    /\ pc[th] = "enq_sendto"
    /\ (outcome = "returns" \/ th # RX) => del = "continues"
    /\ IF outcome = "throws"
       THEN /\ enq_catch_after_unlock(th, del)
            /\ UNCHANGED wire
       ELSE /\ wire' =
                  IF socketDestroys > 0 THEN wire
                  ELSE IF sendToEnabled
                  THEN Record(wire, [bytes |-> udpSendBuffer, to |-> <<sendTo>>,
                                     unicast |-> TRUE, by |-> th])
                  ELSE IF sendAddresses = <<>> THEN wire
                  ELSE Record(wire, [bytes |-> udpSendBuffer,
                                     to |-> sendAddresses,
                                     unicast |-> FALSE, by |-> th])
            /\ sendMutex' = IF sendMutex = th THEN "free" ELSE sendMutex
            /\ pc' = [pc EXCEPT ![th] = AfterEnqueue(th)]
            /\ UNCHANGED senderUnlocks
    /\ UNCHANGED <<echoFrom, sendToEnabled, sendTo, udpSendBuffer,
                   lastMessageStartPosition, senderLocks>>
    /\ UNCHANGED <<closeVars, rxVars, remoteVars, invoked>>
    /\ UNCHANGED <<regVars, beVars>>

(* the runs *)
Sources == Peers \cup ignoredAddresses

\* the receive worker alone, on every datagram
NextReceive ==
    \/ transport_start
    \/ rx_loop
    \/ \E d \in Datagrams, a \in Sources : rx_recvfrom(d, a)
    \/ \E err \in RecvErrors : rx_recv_error(err)
    \/ rx_parse
    \/ \E outcome \in HandlerOutcomes, stale \in StaleBytes :
           rx_dispatch(outcome, stale)
    \/ rx_next
    \/ enq_lock(RX)
    \/ enq_clear(RX)
    \/ enq_send(RX, "returns")
    \/ enq_end(RX, "returns", "continues")
    \/ enq_sendto(RX, "returns", "continues")
    \/ close_lock(RX)
    \/ close_check(RX)
    \/ close_set(RX)
    \/ close_destroy(RX)
    \/ rx_exit

\* the receive worker and two threads that call close(true)
NextClose ==
    \/ transport_start
    \/ rx_loop
    \/ \E d \in CloseDatagrams, a \in Sources : rx_recvfrom(d, a)
    \/ \E err \in RecvErrors : rx_recv_error(err)
    \/ rx_parse
    \/ \E outcome \in HandlerOutcomes : rx_dispatch(outcome, 0)
    \/ rx_next
    \/ enq_lock(RX)
    \/ enq_clear(RX)
    \/ enq_send(RX, "returns")
    \/ enq_end(RX, "returns", "continues")
    \/ enq_sendto(RX, "returns", "continues")
    \/ rx_exit
    \/ \E th \in Users : user_close(th)
    \/ \E th \in Users \cup {RX} : close_lock(th)
    \/ \E th \in Users \cup {RX} : close_check(th)
    \/ \E th \in Users \cup {RX} : close_set(th)
    \/ \E th \in Users \cup {RX} : close_destroy(th)
    \/ \E th \in Users : close_wait(th)

\* the receive worker, which sends echo replies, and the timer thread, which
\* sends beacons
NextSend ==
    \/ transport_start
    \/ rx_loop
    \/ \E d \in EchoDatagrams, a \in Sources : rx_recvfrom(d, a)
    \/ rx_parse
    \/ rx_dispatch("returns", 0)
    \/ rx_next
    \/ timer_callback
    \/ \E th \in {RX, TIMER} : enq_lock(th)
    \/ \E th \in {RX, TIMER} : enq_clear(th)
    \/ \E th \in {RX, TIMER}, outcome \in SendOutcomes : enq_send(th, outcome)
    \/ \E th \in {RX, TIMER}, outcome \in SendOutcomes, del \in DeleteOutcomes :
           enq_end(th, outcome, del)
    \/ \E th \in {RX, TIMER}, outcome \in SendOutcomes, del \in DeleteOutcomes :
           enq_sendto(th, outcome, del)

\* every step the receive worker can take, and every step of a close(true) call
WorkerNext ==
    \/ rx_loop
    \/ \E d \in CloseDatagrams, a \in Sources : rx_recvfrom(d, a)
    \/ \E err \in RecvErrors : rx_recv_error(err)
    \/ rx_parse
    \/ \E outcome \in HandlerOutcomes : rx_dispatch(outcome, 0)
    \/ rx_next
    \/ enq_lock(RX) \/ enq_clear(RX) \/ enq_send(RX, "returns")
    \/ enq_end(RX, "returns", "continues")
    \/ enq_sendto(RX, "returns", "continues")
    \/ close_lock(RX) \/ close_check(RX) \/ close_set(RX) \/ close_destroy(RX)
    \/ rx_exit
CloserNext(th) ==
    \/ close_lock(th) \/ close_check(th) \/ close_set(th) \/ close_destroy(th)
    \/ close_wait(th)

vars == <<regVars, beVars, trVars>>

\* the state after construction of the registry and of the emitter
Init == InitRegistry /\ InitBeacon /\ InitTransport
InitAddress == InitRegistry /\ InitBeaconAddress /\ InitTransport

SpecRegistry == InitAddress /\ [][NextRegistry]_vars
SpecBeacon == Init /\ [][NextBeacon]_vars
SpecReceive == InitAddress /\ [][NextReceive]_vars
SpecClose == InitAddress /\ [][NextClose]_vars
SpecSend == InitAddress /\ [][NextSend]_vars
\* the threads are scheduled: the worker and a thread inside close() take their
\* next step in the end (recvfrom returns after at most the one second of
\* SO_RCVTIMEO, the wait in close() after at most five), and a thread that
\* waits for a mutex that is released again and again gets it in the end
SpecCloseFair ==
    /\ InitAddress
    /\ [][NextClose]_vars
    /\ SF_vars(WorkerNext)
    /\ \A th \in Users : SF_vars(CloserNext(th))


(* ------------------------ TransportRegistry claims -------------------- *)
\* C1: after any sequence of put, remove and clear from the empty registry,
\* numberOfActiveTransports() equals the number of distinct (address, priority)
\* pairs stored in the two-level map.
C1_CountMatchesPairs == numberOfActiveTransports = Cardinality(StoredKeys)

\* C1 witness: a put replaced a stored transport while two pairs were stored
C1_Witness ==
    /\ lastOp.op = "put"
    /\ lastOp.ret # Null
    /\ Cardinality(StoredKeys) = 2

\* C2: after put(t), get(_, t.address, t.priority) returns t, also when another
\* transport was stored at that key before; such a replacement leaves the count
\* as it was.
C2_PutThenGet ==
    lastOp.op = "put" =>
        /\ \A type \in Types : Get(type, lastOp.arg.addr, lastOp.arg.prio) = lastOp.arg
        /\ lastOp.ret # Null => transportCount = lastOp.was

\* C2 witness: put(t) replaced a different transport stored at t's key
C2_Witness ==
    /\ lastOp.op = "put"
    /\ lastOp.ret # Null
    /\ lastOp.ret # lastOp.arg

\* C3: after remove(t), get(_, t.address, t.priority) returns null; remove returns
\* the reference that was stored at the key, or null when nothing was stored
\* there, and then the map and the count are unchanged.
C3_RemoveThenGet ==
    /\ [](lastOp.op = "remove" =>
            \A type \in Types : Get(type, lastOp.arg.addr, lastOp.arg.prio) = Null)
    /\ [][lastOp'.op = "remove" /\ remove(lastOp'.arg) =>
            /\ lastOp'.ret = Get("tcp", lastOp'.arg.addr, lastOp'.arg.prio)
            /\ ~Has(lastOp'.arg.addr, lastOp'.arg.prio) =>
                  /\ lastOp'.ret = Null
                  /\ UNCHANGED <<transports, transportCount>>]_vars

\* C3 witness: remove(t) returned a stored transport that is not t itself
C3_Witness ==
    /\ lastOp.op = "remove"
    /\ lastOp.ret # Null
    /\ lastOp.ret # lastOp.arg

\* C4: no address key of the outer map is associated with an empty priority map.
C4_NoEmptyInnerMap == \A a \in DOMAIN transports : DOMAIN transports[a] # {}

\* C4 witness: a remove took the last priority of an address, another address stays
C4_Witness ==
    /\ lastOp.op = "remove"
    /\ lastOp.ret # Null
    /\ lastOp.arg.addr \notin DOMAIN transports
    /\ transportCount = 1

\* C5: toArray() returns null exactly when no transport is stored; otherwise its
\* vector has numberOfActiveTransports() elements, which are the stored
\* transports, each once, as they are at the moment toArray returns (no put,
\* remove or clear takes effect between its first and its last step).
C5_ToArraySnapshot ==
    /\ lastOp.op = "toArrayNull" => StoredKeys = {}
    /\ lastOp.op = "toArray" =>
          /\ StoredKeys # {}
          /\ Len(lastOp.vec) = numberOfActiveTransports
          /\ \A k \in StoredKeys :
                Cardinality({x \in 1..Len(lastOp.vec) :
                                lastOp.vec[x] = transports[k[1]][k[2]]}) = 1
          /\ \A x \in 1..Len(lastOp.vec) :
                \E k \in StoredKeys : lastOp.vec[x] = transports[k[1]][k[2]]
    /\ lastOp.op # "toArrayOutOfRange"
    /\ taPc = "copy" => mutex = "toArray"

\* C5 witness: toArray returned a vector of two transports
C5_Witness ==
    /\ lastOp.op = "toArray"
    /\ Len(lastOp.vec) = 2

\* C6: get(type, address) returns the transports stored at address, one per
\* priority, in ascending priority order, for every type; after put(t1 at (A,0)),
\* put(t2 at (A,1)), remove(t1) the count is 1 and get(_, A) is [t2].
C6_GetAllOrdered ==
    /\ \A type \in Types : \A a \in Addresses :
          LET r == GetAll(type, a)
          IN IF a \in DOMAIN transports
             THEN /\ ~r.isNull
                  /\ Len(r.vec) = Cardinality(DOMAIN transports[a])
                  /\ \A p \in DOMAIN transports[a] :
                        \E x \in 1..Len(r.vec) : r.vec[x] = transports[a][p]
                  /\ \A x \in 1..Len(r.vec) : \A y \in 1..Len(r.vec) :
                        x < y => r.vec[x].prio < r.vec[y].prio
             ELSE r.isNull
    /\ scenario = "s3" =>
          /\ numberOfActiveTransports = 1
          /\ \A type \in Types :
                GetAll(type, ScenT1.addr) = [isNull |-> FALSE, vec |-> <<ScenT2>>]

\* C6 witness: the scenario put(t1), put(t2), remove(t1) has just been run
C6_Witness == scenario = "s3"

(* -------------------------- BeaconEmitter claims ---------------------- *)
\* the reschedule decisions send() has made so far: one per beacon built
Built == beaconsSent + (IF bePc = "transmit" THEN 1 ELSE 0)

\* C7: the sequence ids of the beacons handed to the socket are 0, 1, 2, ...
\* modulo 2^16 in send order: the n-th beacon (counted from 0) carries n mod 2^16,
\* whatever the status provider did (absent, data, exception).
C7_ContiguousIds ==
    /\ bePc = "transmit" => sendBuffer.id = beaconsSent % 65536
    /\ bePc = "idle" /\ beaconsSent > 0 => sendBuffer.id = (beaconsSent - 1) % 65536

\* C7 witness: the 65537th beacon, built while the status provider threw, has
\* been sent and carries the id 0 again
C7_Witness ==
    /\ bePc = "idle"
    /\ beaconsSent = 65537
    /\ sendBuffer.id = 0
    /\ sendBuffer.threw

\* C8: the delay chosen by reschedule() after the k-th beacon is fastBeaconPeriod
\* for 1 <= k < beaconCountLimit and slowBeaconPeriod for k = beaconCountLimit;
\* the schedule of start() has delay 0.
C8_SwitchAfterLimit ==
    /\ bePc # "new" /\ Built = 0 => timerDelay = 0
    /\ Built >= 1 /\ Built < beaconCountLimit => timerDelay = fastBeaconPeriod
    /\ Built = beaconCountLimit => timerDelay = slowBeaconPeriod

\* C8 witness: the beaconCountLimit-th beacon has been built and rescheduled
C8_Witness ==
    /\ bePc = "transmit"
    /\ Built = beaconCountLimit
    /\ timerDelay = slowBeaconPeriod
    /\ slowBeaconPeriod # fastBeaconPeriod

\* C9: with fast period 1 s, slow period 180 s and limit 10, the beacons numbered
\* 1..9 are scheduled at the fast period and every beacon numbered 10 or more,
\* counted over the emitter's whole life (up to destroy()), is scheduled at the
\* slow period.
C9_SlowForever ==
    ~destroyed /\ fastBeaconPeriod = 1 /\ slowBeaconPeriod = 180 /\ beaconCountLimit = 10 =>
        /\ Built >= 1 /\ Built < 10 => timerDelay = 1
        /\ Built >= 10 => timerDelay = 180

\* C11: when the status provider throws while a beacon is built, the beacon is
\* still handed to the socket, with the null-descriptor sentinel for the status,
\* the sequence id is still incremented and the next callback is still scheduled
\* (it stays queued until a destroy() cancels it).
C11_StatusExceptionCaught ==
    sendBuffer.threw =>
        /\ sendBuffer.status = "null"
        /\ bePc \in {"incr", "transmit", "idle"}
        /\ bePc \in {"transmit", "idle"} =>
              /\ putShort(beaconSequenceID) = (sendBuffer.id + 1) % 65536
              /\ timerDelay = reschedule_period(beaconSequenceID)
              /\ timerQueued \/ destroyed
        /\ bePc = "idle" =>
              /\ beaconsSent >= 1
              /\ sendBuffer.id = (beaconsSent - 1) % 65536

\* C11 witness: the beacon built under the exception has been sent and the next
\* callback is queued
C11_Witness ==
    /\ sendBuffer.threw
    /\ bePc = "idle"
    /\ beaconsSent = 3
    /\ timerQueued
    /\ ~destroyed

\* C10: once destroy() has been called no callback is scheduled any more, also
\* when destroy() ran while a callback was inside send().
C10_NoScheduleAfterDestroy == destroyed => ~timerQueued

(* ------------------- claims about the UDP transport -------------------- *)
Last(s) == s[Len(s)]
\* the datagram in the receive buffer has been processed to its end
Processed == pc[RX] = "loop" /\ rxLimit > 0
\* the echo reply as the peer a should get it
EchoReplyTo(a) ==
    [bytes |-> <<202, 1, 0, 2, 0, 0, 0, 0>>, to |-> <<a>>, unicast |-> TRUE,
     by |-> RX]
\* the calls of the echo handler for the current datagram, and the frames
\* (by their offset in the datagram) they were made for
EchoCalls == {i \in 1..Len(invoked) : invoked[i].handler = "echo"}
EchoFramesSeen == {invoked[i].frame.start : i \in EchoCalls}

\* C12: every echo frame received from A is answered by exactly one datagram,
\* an echo message with payload length 0, unicast to A and to no one else; two
\* echo frames in one datagram give two replies.
C12_OneReplyPerEcho ==
    /\ \A i \in 1..Len(wire) : wire[i] = EchoReplyTo(fromAddress)
    /\ Len(wire) <= Cardinality(EchoFramesSeen)
    /\ Processed => Len(wire) = Cardinality(EchoFramesSeen)

\* the 32-bit length field at offset i of the datagram, read as unsigned in
\* the byte order big, is at most room
LengthFits(i, big, room) ==
    LET b(k) == receiveBuffer[i + (IF big THEN 4 - k ELSE 1 + k)]
    IN  b(3) = 0 /\ b(2) = 0 /\ b(1) * 256 + b(0) <= room

\* C13: a connection-validation frame with payload (R, S, P), 10 bytes declared
\* and carried, and header version v sets the remote receive-buffer size to R,
\* the remote socket receive-buffer size to S and the remote minor revision to
\* v; P is not read, the priority stays as it was and no reply is sent.
C13_ValidationSetsRemote ==
    (/\ Len(invoked) > 0
     /\ Last(invoked).handler = "cv"
     /\ pc[RX] = "handled"
     /\ LengthFits(frame.start + 4, rxBigEndian, 10)
     /\ ~LengthFits(frame.start + 4, rxBigEndian, 9)) =>
        /\ remoteTransportReceiveBufferSize = 65536
        /\ remoteTransportSocketReceiveBufferSize = 131072
        /\ remoteMinorRevision = receiveBuffer[frame.start + 2]
        /\ rxPosition = frame.headerEnd + 8
        /\ priority = 0
        /\ wire = <<>>
        /\ sendMutex = "free"

\* C13 witness: a big-endian validation frame of version 2 has been handled
C13_Witness ==
    /\ pc[RX] = "handled"
    /\ receiveBuffer = ValidationFrameBE
    /\ Last(invoked).handler = "cv"
    /\ remoteTransportReceiveBufferSize = 65536
    /\ remoteTransportSocketReceiveBufferSize = 131072
    /\ remoteMinorRevision = 2

\* the command byte of the current frame, as it stands in the datagram
CommandByte == receiveBuffer[frame.start + 4]

\* C14: a frame whose command is outside 0..27 (28 or more, or negative as a
\* signed byte) reaches no handler, gets no reply, changes no state of the
\* transport and leaves the cursor where it was; the receive loop then goes on
\* at headerEnd + payloadSize.
C14_UnknownCommandSkipped ==
    /\ [][(pc[RX] = "handle" /\ CommandByte >= 28) =>
            /\ pc'[RX] = "handled"
            /\ Last(invoked').handler = "none"
            /\ Len(invoked') = Len(invoked) + 1
            /\ rxPosition' = rxPosition
            /\ wire' = wire
            /\ remoteVars' = remoteVars
            /\ txVars' = txVars
            /\ closeVars' = closeVars]_vars
    /\ [][(pc[RX] = "handled" /\ CommandByte >= 28) =>
            /\ pc'[RX] = "process"
            /\ rxPosition' = frame.headerEnd + frame.payloadSize
            /\ invoked' = invoked]_vars

\* C14 witness: command 200 (negative as int8) with two payload bytes was
\* skipped and the echo frame behind it was dispatched
C14_Witness ==
    /\ receiveBuffer = NegativeFrame \o EchoFrame
    /\ Len(invoked) = 2
    /\ invoked[1].handler = "none"
    /\ invoked[2].handler = "echo"
    /\ invoked[2].frame.start = 10
    /\ Processed
    /\ wire = <<EchoReplyTo(fromAddress)>>

\* C15: when a frame does not start with the magic byte 0xCA, no handler is
\* called for it or for the bytes behind it in the datagram, the transport stays
\* open and the worker goes on to the next datagram.
C15_BadMagicDropsDatagram ==
    /\ [][(/\ pc[RX] = "process"
           /\ rxLimit - rxPosition >= 8
           /\ receiveBuffer[rxPosition + 1] # 202) =>
            /\ pc'[RX] = "loop"
            /\ invoked' = invoked
            /\ wire' = wire
            /\ closeVars' = closeVars]_vars
    /\ [][(pc[RX] = "loop" /\ ~closed) =>
            /\ pc'[RX] = "recv"
            /\ invoked' = <<>>
            /\ ~closed']_vars

\* C15 witness: the datagram began with a bad magic byte, the echo frame behind
\* it was not dispatched, and the worker is back at the top of its loop
C15_Witness ==
    /\ receiveBuffer = BadMagicFrame \o EchoFrame
    /\ Processed
    /\ invoked = <<>>
    /\ wire = <<>>
    /\ ~closed

\* C16: every frame handed to the handler starts with the magic byte 0xCA and
\* lies inside the datagram: headerEnd + payloadSize <= limit, whatever the
\* datagram holds, length fields with the high bit set included.
C16_DispatchedFramesInBounds ==
    \A i \in 1..Len(invoked) :
        LET f == invoked[i].frame
        IN  /\ receiveBuffer[f.start + 1] = 202
            /\ LengthFits(f.start + 4, receiveBuffer[f.start + 3] >= 128,
                          rxLimit - f.headerEnd)

\* C17: an exception thrown by a handler is contained: the transport is not
\* closed and the receive worker keeps running.
C17_HandlerExceptionContained ==
    (Len(invoked) > 0 /\ Last(invoked).threw) =>
        /\ ~closed
        /\ pc[RX] \notin {"close_lock", "close_check", "close_set",
                          "close_destroy", "exit", "done"}

\* C18: under every interleaving of close calls the closed flag is set exactly
\* once and never reset, and the socket is destroyed exactly once.
C18_CloseOnce ==
    /\ [](/\ closeSets <= 1
          /\ socketDestroys <= closeSets
          /\ closed <=> closeSets = 1
          /\ (\A th \in Threads : pc[th] # "close_destroy") =>
                 socketDestroys = closeSets)
    /\ [][closed => closed']_vars

\* C18 witness: both user threads and the worker have called close, the worker
\* has ended, the flag is set and the socket was destroyed
C18_Witness ==
    /\ closed
    /\ socketDestroys = 1
    /\ \A th \in Threads \ {TIMER} : closeResult[th].how # "none"
    /\ pc[RX] = "done"

\* C19: when close(true) returns on a started transport without its wait having
\* timed out, the receive worker has left its loop and signalled the shutdown
\* event; also when the flag had been set before by the worker or by another
\* close call.
C19_CloseReturnsAfterWorker ==
    \A th \in Users :
        (closeResult[th].how \in {"early", "waited"} /\ closeResult[th].started)
            => closeResult[th].workerDone

\* the beacon message as the send list should get it
BeaconTo ==
    [bytes |-> <<202, 1, 0, 0, 33, 0, 0, 0>> \o [i \in 1..32 |-> 0] \o <<255>>,
     to |-> sendAddresses, unicast |-> FALSE, by |-> TIMER]
InSend(th) == pc[th] \in {"enq_clear", "enq_send", "enq_end", "enq_sendto"}

\* C20: sends on one transport are serialized: at most one enqueueSendRequest is
\* between the clearing of the send buffer and sendto, a datagram on the wire is
\* either a whole beacon to the send list or a whole echo reply to the peer that
\* asked, never a mix.
C20_SendsSerialized ==
    /\ ~(InSend(RX) /\ InSend(TIMER))
    /\ \A i \in 1..Len(wire) :
          \/ wire[i] = EchoReplyTo(fromAddress)
          \/ wire[i] = BeaconTo

\* C20 witness: the timer thread waits for the send lock while the worker is
\* about to hand its echo reply to sendto, after a beacon went out
C20_Witness ==
    /\ pc[TIMER] = "enq_lock"
    /\ pc[RX] = "enq_sendto"
    /\ Len(wire) >= 1
    /\ wire[1] = BeaconTo

\* C21: on a started transport, once the closed flag is set the receive worker
\* leaves its loop in the end and signals the shutdown event, and it signals
\* only there and only once.
C21_WorkerExits ==
    /\ (closed /\ pc[RX] # "new") ~> (pc[RX] = "done")
    /\ [][(~shutdownEvent /\ shutdownEvent') =>
              (pc[RX] = "exit" /\ pc'[RX] = "done")]_vars
    /\ [][pc[RX] = "done" => pc'[RX] = "done"]_vars

\* C22: a failed recvfrom closes the transport and ends the receive loop exactly
\* when its error is none of EINTR, EAGAIN, EWOULDBLOCK, ETIMEDOUT, ECONNREFUSED,
\* ECONNRESET: after one of the six the transport is still open and the loop
\* calls recvfrom again; after any other the closed flag is set by a close that
\* does not wait for the shutdown event, and the loop is left.
C22_RecvErrorClasses ==
    /\ [](socketError \in {"EINTR", "EAGAIN", "EWOULDBLOCK", "ETIMEDOUT",
                           "ECONNREFUSED", "ECONNRESET"} =>
              (pc[RX] = "loop" /\ ~closed))
    /\ [](socketError \in {"EBADF", "ENOBUFS"} =>
              /\ pc[RX] \in {"close_lock", "close_check", "close_set",
                              "close_destroy", "exit", "done"}
              /\ pc[RX] \in {"exit", "done"} =>
                    (closed /\ closeResult[RX].how = "nowait"))
    /\ [][(socketError \in {"EINTR", "EAGAIN", "EWOULDBLOCK", "ETIMEDOUT",
                             "ECONNREFUSED", "ECONNRESET"}) =>
              (pc'[RX] = "recv")]_vars

\* C22 witness: recvfrom failed with ENOBUFS on an open transport; the worker
\* has closed the transport and has left its loop
C22_Witness ==
    /\ socketError = "ENOBUFS"
    /\ pc[RX] = "done"
    /\ closed
    /\ socketDestroys = 1

\* C23: within one datagram the frames are dispatched in wire order: each
\* dispatched frame starts after the one dispatched before it, exactly where
\* the declared payload of that frame ends, whatever the handler read; and the
\* cursor left by a dispatch is never before the end of the frame's header. A
\* new datagram is only received when no frame of the previous one is pending.
C23_FramesInWireOrder ==
    /\ \A i \in 1..(Len(invoked) - 1) :
          /\ invoked[i + 1].frame.start > invoked[i].frame.start
          /\ invoked[i].frame.payloadSize >= 0 =>
                invoked[i + 1].frame.start =
                    invoked[i].frame.headerEnd + invoked[i].frame.payloadSize
    /\ pc[RX] = "process" /\ Len(invoked) > 0 =>
          rxPosition >= Last(invoked).frame.headerEnd
    /\ pc[RX] = "recv" => (frame = NoFrame /\ invoked = <<>>)

\* C24: the dispatch of a connection-validation frame that declares fewer than
\* 10 bytes of payload leaves the three remote settings of the transport as they
\* were, closes nothing and sends the worker back to the top of its loop for the
\* next datagram.
C24_ShortValidationRejected ==
    [][(/\ pc[RX] = "handle"
        /\ frame.command = CMD_CONNECTION_VALIDATION
        /\ frame.payloadSize >= 0
        /\ frame.payloadSize < 10) =>
           (/\ remoteTransportReceiveBufferSize' = remoteTransportReceiveBufferSize
            /\ remoteTransportSocketReceiveBufferSize' =
                   remoteTransportSocketReceiveBufferSize
            /\ remoteMinorRevision' = remoteMinorRevision
            /\ ~closed'
            /\ pc'[RX] = "loop")]_vars

\* C25: every iteration of the frame loop of processBuffer() that does not
\* return moves the cursor forward by at least the 8 bytes of the header, for
\* every value of the length field; the distance from the cursor to the limit
\* then decreases with every iteration, and the loop ends.
C25_CursorAdvances ==
    [][(pc[RX] = "handled" /\ pc'[RX] = "process") =>
           (/\ rxPosition' >= frame.start + CA_MESSAGE_HEADER_SIZE
            /\ rxLimit' - rxPosition' < rxLimit - frame.start)]_vars

\* C26: every enqueueSendRequest(sender) calls sender.lock() once and
\* sender.unlock() once, whether sender.send, endMessage and the socket send
\* return or throw: unlock() is never called a second time, after the try block
\* lock() and unlock() have each been called once, and after the call both
\* counts are equal.
C26_SenderReleasedOnce ==
    \A th \in {RX, TIMER} :
        /\ senderLocks[th] <= 1
        /\ senderUnlocks[th] <= 1
        /\ pc[th] \in {"enq_end", "enq_sendto"} =>
              (senderLocks[th] = 1 /\ senderUnlocks[th] = 1)
        /\ ~InSend(th) => senderLocks[th] = senderUnlocks[th]
====
